---- MODULE Spec2Model ----
(***************************************************************************)
(* A model of pieces of the ente repository:                               *)
(*   - PlanSelectorCard of PlanSelector.tsx: planSelectionOutcome, the     *)
(*     pure classifier, and handlePlanSelect with its dialogs and          *)
(*     redirects (SpecPlan); the plan-loading effect (SpecEffect);         *)
(*   - ImportService of importService.ts (SpecImport);                     *)
(*   - the escaping of the contact-info parameter in doListAction          *)
(*     (MailingListsController, Go) (SpecEscape);                          *)
(*   - the MailingListsController itself: Subscribe / Unsubscribe /        *)
(*     shouldSkip / doListAction, with the cached access token as the      *)
(*     only mutable field, called by one caller (Spec) or by several       *)
(*     concurrent callers (SpecConcurrent).                                *)
(***************************************************************************)
EXTENDS Integers, Sequences, FiniteSets, TLC

VARIABLES
    \* PlanSelector.tsx
    subscription,       \* userDetails?.subscription, or Undefined
    outcome,            \* planSelectionOutcome's last call in this render:
                        \* its subscription, its Date.now() and its result
    loading,            \* the parent's loading flag, set through setLoading
    loadingLog,         \* the arguments of the setLoading calls so far
    dialog,             \* the mini dialog showMiniDialog has up, or "none"
    redirect,           \* the call of redirectToPaymentsApp, if any
    selectPc,           \* where the call of handlePlanSelect stands
    confirmed,          \* the dialog whose continue button was pressed,
                        \* or "none"
    selPlan,            \* the stripeID of the plan handlePlanSelect was given
    effectPc,           \* where the plan-loading effect stands
    fetched,            \* what getPlansData resolved with
    plansData,          \* the plansData state of the card
    effectNow,          \* Date.now() when the effect ran isSubscriptionActive
    closed,             \* onClose was called
    \* ImportService
    ElectronAPIs,       \* this.ElectronAPIs
    allElectronAPIsExist, \* this.allElectronAPIsExist
    constructed,        \* the constructor of ImportService has run
    electronCalls,      \* the Electron API calls made so far
    opLog,              \* the operations of ImportService called so far
    \* doListAction's escaping, applied to one email
    escEmail,           \* the email last escaped
    escParam,           \* the contactinfo parameter built from it
    \* MailingListsController
    refreshToken,       \* c.zohoCredentials.RefreshToken
    zohoAccessToken,    \* c.zohoAccessToken, a Go string header (data, len)
    pc,                 \* per caller: where its call stands
    call,               \* per caller: the operation and email of its call
    sent,               \* per caller: its request in flight at zoho.DoRequest
    ret,                \* per caller: what zoho.DoRequest returned (token, err)
    stored,             \* per caller: the words of c.zohoAccessToken it has written
    result,             \* per caller: the error returned to the caller
    logged,             \* per caller: the level of the log line of its call
    attempts,           \* per caller: calls of zoho.DoRequest made by its call
    lastStored,         \* the call that completed its store last: the token
                        \* the client returned to it, and whether it failed
    calls,              \* the number of calls begun so far
    vendorList          \* the vendor's list: per email, what the last request
                        \* the vendor carried out did to it

planVars == <<subscription, outcome>>
escVars  == <<escEmail, escParam>>
ctrlVars == <<refreshToken, zohoAccessToken, pc, call, sent, ret, stored,
              result, logged, attempts, lastStored, calls, vendorList>>
cardVars == <<loading, loadingLog, dialog, redirect, selectPc, confirmed,
              selPlan>>
effVars  == <<effectPc, fetched, plansData, effectNow, closed>>
impVars  == <<ElectronAPIs, allElectronAPIsExist, constructed, electronCalls,
              opLog>>
vars     == <<planVars, escVars, ctrlVars, cardVars, effVars, impVars>>

\* ------------------------------------------------------------------ bounds

\* Date.now() ranges over 0..MaxClockMs milliseconds.
MaxClockMs == 3
\* getPlansData resolves with lists of up to MaxPlans plans.
MaxPlans == 2
\* updatePendingUploads and setToUploadFiles are given up to MaxFiles files.
MaxFiles == 2
\* An ImportService object receives up to MaxOps operation calls.
MaxOps == 2
\* Emails escaped in SpecEscape are all character sequences up to this length.
MaxEmailLen == 3
\* Concurrent callers of the controller in SpecConcurrent.
NumCallers == 2
\* Calls begun in one behaviour of the controller.
MaxCalls == 3

\* ============================================================ PlanSelector

\* `undefined`: no subscription.
Undefined == [undefined |-> TRUE]

\* Date.now() * 1000: milliseconds to the microseconds of expiryTime.
UsPerMs == 1000

ProductIDs == {"free", "paid_50gb"}

PaymentProviders == {"stripe", "appstore", "playstore", "paypal", ""}

\* Expiry instants (microseconds) around every clock value: just before, at and
\* just after each millisecond boundary.
ExpiryTimes ==
    {t \in {k * UsPerMs + d : k \in 0..MaxClockMs, d \in {-1, 0, 1}} : t >= 0}

Subscriptions ==
    [productID : ProductIDs, expiryTime : ExpiryTimes,
     paymentProvider : PaymentProviders]

planSelectionOutcomeFreeAfterExpiry(sub, nowMs) ==
    IF sub = Undefined THEN "buyPlan"
    ELSE IF sub.expiryTime < nowMs * UsPerMs THEN "buyPlan"
    ELSE IF sub.paymentProvider = "stripe" THEN "updateSubscriptionToPlan"
    ELSE IF sub.paymentProvider \in {"appstore", "playstore"} THEN "cancelOnMobile"
    ELSE IF sub.productID = "free" THEN "buyPlan"
    ELSE "contactSupport"

planSelectionOutcomeProviderFirst(sub, nowMs) ==
    IF sub = Undefined THEN "buyPlan"
    ELSE IF sub.productID = "free" THEN "buyPlan"
    ELSE IF sub.paymentProvider = "stripe" THEN "updateSubscriptionToPlan"
    ELSE IF sub.paymentProvider \in {"appstore", "playstore"} THEN "cancelOnMobile"
    ELSE IF sub.expiryTime < nowMs * UsPerMs THEN "buyPlan"
    ELSE "contactSupport"

planSelectionOutcomeStripeAsMobile(sub, nowMs) ==
    IF sub = Undefined THEN "buyPlan"
    ELSE IF sub.productID = "free" THEN "buyPlan"
    ELSE IF sub.expiryTime < nowMs * UsPerMs THEN "buyPlan"
    ELSE IF sub.paymentProvider \in {"stripe", "appstore", "playstore"}
         THEN "cancelOnMobile"
    ELSE "contactSupport"

planSelectionOutcomeAppstoreOnly(sub, nowMs) ==
    IF sub = Undefined THEN "buyPlan"
    ELSE IF sub.productID = "free" THEN "buyPlan"
    ELSE IF sub.expiryTime < nowMs * UsPerMs THEN "buyPlan"
    ELSE IF sub.paymentProvider = "stripe" THEN "updateSubscriptionToPlan"
    ELSE IF sub.paymentProvider = "appstore" THEN "cancelOnMobile"
    ELSE "contactSupport"

planSelectionOutcomeOtherAsMobile(sub, nowMs) ==
    IF sub = Undefined THEN "buyPlan"
    ELSE IF sub.productID = "free" THEN "buyPlan"
    ELSE IF sub.expiryTime < nowMs * UsPerMs THEN "buyPlan"
    ELSE IF sub.paymentProvider = "stripe" THEN "updateSubscriptionToPlan"
    ELSE "cancelOnMobile"

planSelectionOutcomeAbsentAsSupport(sub, nowMs) ==
    IF sub = Undefined THEN "contactSupport"
    ELSE IF sub.productID = "free" THEN "buyPlan"
    ELSE IF sub.expiryTime < nowMs * UsPerMs THEN "buyPlan"
    ELSE IF sub.paymentProvider = "stripe" THEN "updateSubscriptionToPlan"
    ELSE IF sub.paymentProvider \in {"appstore", "playstore"} THEN "cancelOnMobile"
    ELSE "contactSupport"

\* planSelectionOutcome(subscription), with Date.now() as nowMs.
planSelectionOutcome(sub, nowMs) ==
    IF sub = Undefined THEN "buyPlan"
    ELSE IF sub.productID = "free" THEN "buyPlan"
    ELSE IF sub.expiryTime < nowMs * UsPerMs THEN "buyPlan"
    ELSE IF sub.paymentProvider = "stripe" THEN "updateSubscriptionToPlan"
    ELSE IF sub.paymentProvider \in {"appstore", "playstore"} THEN "cancelOnMobile"
    ELSE "contactSupport"

NoOutcome == [result |-> "none"]

\* The variables of the other components, which the plan selector leaves alone.
notPlanVars == <<escVars, ctrlVars, effVars, impVars>>

\* plan.stripeID of the plan the user selects: set, or undefined.
UndefinedID == "undefined"
StripeIDs == {"stripe_50gb", UndefinedID}

NoRedirect == [reason |-> "none", stripeID |-> UndefinedID, state |-> "none"]

\* The dialogs whose only button is continue (cancel: false).
ContinueOnlyDialogs == {"cancelOnMobile", "contactSupport"}

PlanInit ==
    /\ subscription = Undefined
    /\ outcome = NoOutcome
    /\ loading = FALSE
    /\ loadingLog = <<>>
    /\ dialog = "none"
    /\ redirect = NoRedirect
    /\ selectPc = "idle"
    /\ confirmed = "none"
    /\ selPlan = UndefinedID

\* The user details snapshot changes and the card renders again with another
\* subscription. A selection under way keeps the subscription of the render
\* it was made in, so the change is taken between selections.
UserDetailsSnapshot ==
    /\ selectPc = "idle"
    /\ \E s \in Subscriptions \cup {Undefined} : subscription' = s
    /\ outcome' = NoOutcome
    /\ UNCHANGED cardVars
    /\ UNCHANGED notPlanVars

\* case "buyPlan": setLoading(true), then redirectToPaymentsApp(
\* ensure(plan.stripeID), "buy") is awaited; ensure throws into the catch
\* when the plan has no stripeID.
BuyPlanCase(plan) ==
    IF plan = UndefinedID
    THEN /\ loading' = FALSE
         /\ loadingLog' = loadingLog \o <<TRUE, FALSE>>
         /\ dialog' = "purchaseFailed"
         /\ selectPc' = "resolved"
         /\ UNCHANGED redirect
    ELSE /\ loading' = TRUE
         /\ loadingLog' = Append(loadingLog, TRUE)
         /\ redirect' = [reason |-> "buy", stripeID |-> plan, state |-> "pending"]
         /\ selectPc' = "awaiting"
         /\ UNCHANGED dialog

UpdateCaseRedirectsAtOnce(plan) ==
    /\ redirect' = [reason |-> "update", stripeID |-> plan, state |-> "pending"]
    /\ dialog' = "update"
    /\ selectPc' = "resolved"
    /\ UNCHANGED <<loading, loadingLog>>

\* case "updateSubscriptionToPlan": the update dialog is shown; its continue
\* button holds the redirect.
UpdateCase(plan) ==
    /\ dialog' = "update"
    /\ selectPc' = "resolved"
    /\ UNCHANGED <<loading, loadingLog, redirect>>

\* case "cancelOnMobile" and case "contactSupport": a dialog with nothing
\* behind its continue button.
InfoCase(kind) ==
    /\ dialog' = kind
    /\ selectPc' = "resolved"
    /\ UNCHANGED <<loading, loadingLog, redirect>>

\* handlePlanSelect(plan): planSelectionOutcome(subscription) at some instant
\* Date.now(), and the case of the switch it selects, up to the first await.
HandlePlanSelect ==
    /\ selectPc = "idle"
    /\ \E nowMs \in 0..MaxClockMs, plan \in StripeIDs :
           LET r == planSelectionOutcome(subscription, nowMs)
           IN  /\ outcome' = [sub |-> subscription, nowMs |-> nowMs, result |-> r]
               /\ selPlan' = plan
               /\ CASE r = "buyPlan" -> BuyPlanCase(plan)
                    [] r = "updateSubscriptionToPlan" -> UpdateCase(plan)
                    [] OTHER -> InfoCase(r)
    /\ UNCHANGED <<subscription, confirmed>>
    /\ UNCHANGED notPlanVars

\* redirectToPaymentsApp resolves.
RedirectResolves ==
    /\ redirect.state = "pending"
    /\ redirect' = [redirect EXCEPT !.state = "done"]
    /\ selectPc' = IF redirect.reason = "buy" THEN "resolved" ELSE selectPc
    /\ UNCHANGED <<subscription, outcome, loading, loadingLog, dialog,
                   confirmed, selPlan>>
    /\ UNCHANGED notPlanVars

RedirectRejectsUncaught ==
    /\ redirect.state = "pending"
    /\ redirect' = [redirect EXCEPT !.state = "failed"]
    /\ selectPc' = IF redirect.reason = "buy" THEN "rejected" ELSE selectPc
    /\ UNCHANGED <<subscription, outcome, loading, loadingLog, dialog,
                   confirmed, selPlan>>
    /\ UNCHANGED notPlanVars

\* redirectToPaymentsApp rejects. In the buyPlan case the catch runs:
\* setLoading(false), the purchase-failed dialog, and handlePlanSelect ends
\* normally. The redirect behind the update dialog is not awaited by the card.
RedirectRejects ==
    /\ redirect.state = "pending"
    /\ redirect' = [redirect EXCEPT !.state = "failed"]
    /\ IF redirect.reason = "buy"
       THEN /\ loading' = FALSE
            /\ loadingLog' = Append(loadingLog, FALSE)
            /\ dialog' = "purchaseFailed"
            /\ selectPc' = "resolved"
       ELSE UNCHANGED <<loading, loadingLog, dialog, selectPc>>
    /\ UNCHANGED <<subscription, outcome, confirmed, selPlan>>
    /\ UNCHANGED notPlanVars

\* The user presses continue. Behind the update dialog's button is
\* redirectToPaymentsApp(ensure(plan.stripeID), "update").
DialogContinue ==
    /\ dialog # "none"
    /\ confirmed' = dialog
    /\ dialog' = "none"
    /\ redirect' = IF dialog = "update" /\ selPlan # UndefinedID
                   THEN [reason |-> "update", stripeID |-> selPlan,
                         state |-> "pending"]
                   ELSE redirect
    /\ UNCHANGED <<subscription, outcome, loading, loadingLog, selectPc, selPlan>>
    /\ UNCHANGED notPlanVars

\* The user cancels or closes a dialog that can be.
DialogDismiss ==
    /\ dialog \notin ContinueOnlyDialogs \cup {"none"}
    /\ dialog' = "none"
    /\ UNCHANGED <<subscription, outcome, loading, loadingLog, redirect,
                   selectPc, confirmed, selPlan>>
    /\ UNCHANGED notPlanVars

\* The selection is over and the card is mounted afresh (after the redirect,
\* with the page loaded again).
CardRemount ==
    /\ selectPc \in {"resolved", "rejected"}
    /\ dialog = "none"
    /\ redirect.state # "pending"
    /\ outcome' = NoOutcome
    /\ loading' = FALSE
    /\ loadingLog' = <<>>
    /\ redirect' = NoRedirect
    /\ selectPc' = "idle"
    /\ confirmed' = "none"
    /\ selPlan' = UndefinedID
    /\ UNCHANGED <<subscription, dialog>>
    /\ UNCHANGED notPlanVars

\* =============================================== the plan-loading effect

\* A plan, by its identifiers; storage, price and period play no part in
\* what the effect decides.
Plan(id, stripeID, iosID, androidID) ==
    [id |-> id, stripeID |-> stripeID, iosID |-> iosID, androidID |-> androidID]

\* The catalog the fetched lists are drawn from: a plan whose Stripe product
\* is the paid product, one whose App Store product is, and two of other
\* products.
Catalog ==
    { Plan("plan_a", "paid_50gb", "ios_a", "android_a"),
      Plan("plan_b", "stripe_b", "paid_50gb", "android_b"),
      Plan("plan_c", "stripe_c", "ios_c", "android_c"),
      Plan("plan_d", "stripe_d", "ios_d", "android_d") }

\* isSubscriptionActive(subscription): it has not expired at Date.now().
isSubscriptionActive(sub, nowMs) == sub.expiryTime > nowMs * UsPerMs

\* isSubscriptionFree(subscription).
isSubscriptionFree(sub) == sub.productID = "free"

\* isSubscriptionForPlan(subscription, plan): the plan's product with one of
\* the payment providers is the subscription's product.
isSubscriptionForPlan(sub, plan) ==
    \/ plan.stripeID = sub.productID
    \/ plan.iosID = sub.productID
    \/ plan.androidID = sub.productID

\* The indices of the plans of a list that the subscription is for.
MatchingPlans(sub, plans) ==
    {i \in 1..Len(plans) : isSubscriptionForPlan(sub, plans[i])}

\* What getPlansData resolves with: lists of distinct plans of which at most
\* one matches any one product.
FetchedLists ==
    {l \in UNION {[1..n -> Catalog] : n \in 0..MaxPlans} :
        /\ \A i, j \in 1..Len(l) : l[i] = l[j] => i = j
        /\ \A prod \in ProductIDs :
               Cardinality(MatchingPlans([productID |-> prod], l)) <= 1}

\* The plan the effect builds from the subscription.
SyntheticPlan(sub) ==
    Plan(sub.productID, sub.productID, sub.productID, sub.productID)

PlansAfterEffectPaidOrFree(sub, plans, nowMs) ==
    IF sub # Undefined /\ isSubscriptionActive(sub, nowMs)
       /\ MatchingPlans(sub, plans) = {}
    THEN Append(plans, SyntheticPlan(sub))
    ELSE plans

\* The plans of plansData when the effect hands it to setPlansData: the
\* fetched ones, and the synthetic plan pushed after them when the
\* subscription is active, is for none of them and is not free.
PlansAfterEffect(sub, plans, nowMs) ==
    IF sub # Undefined /\ isSubscriptionActive(sub, nowMs)
       /\ ~isSubscriptionFree(sub) /\ MatchingPlans(sub, plans) = {}
    THEN Append(plans, SyntheticPlan(sub))
    ELSE plans

notEffectVars == <<outcome, redirect, selectPc, confirmed, selPlan,
                   escVars, ctrlVars, impVars>>

EffectInit ==
    /\ effectPc = "unmounted"
    /\ fetched = <<>>
    /\ plansData = Undefined
    /\ effectNow = 0
    /\ closed = FALSE

\* The card mounts with the subscription of the user details snapshot, and
\* its effect runs up to the await: setLoading(true), getPlansData().
CardMounts ==
    /\ effectPc = "unmounted"
    /\ \E s \in Subscriptions \cup {Undefined} : subscription' = s
    /\ loading' = TRUE
    /\ loadingLog' = Append(loadingLog, TRUE)
    /\ effectPc' = "fetching"
    /\ UNCHANGED <<fetched, plansData, effectNow, closed, dialog>>
    /\ UNCHANGED notEffectVars

\* getPlansData resolves: the try block's remainder, then the finally block.
GetPlansDataResolves ==
    /\ effectPc = "fetching"
    /\ \E plans \in FetchedLists, nowMs \in 0..MaxClockMs :
           /\ fetched' = plans
           /\ effectNow' = nowMs
           /\ plansData' = [plans |-> PlansAfterEffect(subscription, plans, nowMs)]
    /\ loading' = FALSE
    /\ loadingLog' = Append(loadingLog, FALSE)
    /\ effectPc' = "done"
    /\ UNCHANGED <<subscription, closed, dialog>>
    /\ UNCHANGED notEffectVars

GetPlansDataRejectsNoFinally ==
    /\ effectPc = "fetching"
    /\ closed' = TRUE
    /\ dialog' = "genericError"
    /\ effectPc' = "failed"
    /\ UNCHANGED <<subscription, fetched, plansData, effectNow, loading,
                   loadingLog>>
    /\ UNCHANGED notEffectVars

\* getPlansData rejects: the catch block (onClose, the generic retriable
\* error dialog), then the finally block.
GetPlansDataRejects ==
    /\ effectPc = "fetching"
    /\ closed' = TRUE
    /\ dialog' = "genericError"
    /\ loading' = FALSE
    /\ loadingLog' = Append(loadingLog, FALSE)
    /\ effectPc' = "failed"
    /\ UNCHANGED <<subscription, fetched, plansData, effectNow>>
    /\ UNCHANGED notEffectVars

\* The card unmounts; what it held is gone.
CardUnmounts ==
    /\ effectPc \in {"done", "failed"}
    /\ effectPc' = "unmounted"
    /\ fetched' = <<>>
    /\ plansData' = Undefined
    /\ effectNow' = 0
    /\ closed' = FALSE
    /\ dialog' = "none"
    /\ loadingLog' = <<>>
    /\ UNCHANGED <<subscription, loading>>
    /\ UNCHANGED notEffectVars

\* ========================================================= ImportService

\* The methods an Electron API object can have.
ElectronMethods ==
    {"showUploadFilesDialog", "showUploadDirsDialog", "getPendingUploads",
     "setToUploadFiles", "setToUploadCollection"}

\* What the constructor can find: runningInBrowser() is false, window has no
\* ElectronAPIs, or it has an object: with every method, with every method
\* but getPendingUploads, or with getPendingUploads alone.
ElectronAPIValues ==
    { [kind |-> "false"], [kind |-> "undefined"],
      [kind |-> "object", methods |-> ElectronMethods],
      [kind |-> "object", methods |-> ElectronMethods \ {"getPendingUploads"}],
      [kind |-> "object", methods |-> {"getPendingUploads"}] }

Methods(api) == IF api.kind = "object" THEN api.methods ELSE {}

\* !!this.ElectronAPIs?.getPendingUploads
HasGetPendingUploads(api) == "getPendingUploads" \in Methods(api)

\* The files given to setToUploadFiles and updatePendingUploads.
UploadFiles ==
    { [isLivePhoto |-> FALSE, path |-> "a.jpg", image |-> "", video |-> ""],
      [isLivePhoto |-> TRUE, path |-> "b.zip", image |-> "b.heic",
       video |-> "b.mov"] }

FileLists == UNION {[1..n -> UploadFiles] : n \in 0..MaxFiles}

\* The collections given to setToUploadFiles, by name.
CollectionLists == {<<>>, <<"Trip">>, <<"Trip", "Home">>}

\* files.map((file) => file.file.path)
RECURSIVE FilePaths(_)
FilePaths(files) ==
    IF files = <<>> THEN <<>>
    ELSE <<Head(files).path>> \o FilePaths(Tail(files))

\* The loop of updatePendingUploads: a live photo gives its image and its
\* video, any other file its own path.
RECURSIVE PendingPaths(_)
PendingPaths(files) ==
    IF files = <<>> THEN <<>>
    ELSE (IF Head(files).isLivePhoto
          THEN <<Head(files).image, Head(files).video>>
          ELSE <<Head(files).path>>) \o PendingPaths(Tail(files))

\* collectionName of setToUploadFiles: set when there is one collection.
CollectionName(collections) ==
    IF Len(collections) = 1 THEN [name |-> collections[1]] ELSE Undefined

\* The calls this.ElectronAPIs.m(arg) made one after the other, up to the
\* first whose method the object lacks (a TypeError ends the operation).
RECURSIVE Invoked(_, _)
Invoked(api, cs) ==
    IF cs = <<>> THEN <<>>
    ELSE IF Head(cs).method \in Methods(api)
         THEN <<Head(cs)>> \o Invoked(api, Tail(cs))
         ELSE <<>>

ElectronCall(method, arg) == [method |-> method, arg |-> arg]

notImportVars == <<planVars, escVars, ctrlVars, cardVars, effVars>>

ImportInit ==
    /\ ElectronAPIs = [kind |-> "undefined"]
    /\ allElectronAPIsExist = FALSE
    /\ constructed = FALSE
    /\ electronCalls = <<>>
    /\ opLog = <<>>

\* constructor()
Construct ==
    /\ ~constructed
    /\ \E api \in ElectronAPIValues :
           /\ ElectronAPIs' = api
           /\ allElectronAPIsExist' = HasGetPendingUploads(api)
    /\ constructed' = TRUE
    /\ UNCHANGED <<electronCalls, opLog>>
    /\ UNCHANGED notImportVars

\* What an operation whose body is guarded by the flag leaves in the record
\* of the Electron API calls, cs being the calls of its body.
AfterGuarded(flag, cs) ==
    IF flag THEN electronCalls \o Invoked(ElectronAPIs, cs) ELSE electronCalls

\* An operation can be called: the object is constructed.
Callable == constructed /\ Len(opLog) < MaxOps

ShowUploadFilesDialog ==
    /\ Callable
    /\ opLog' = Append(opLog, "showUploadFilesDialog")
    /\ electronCalls' =
           AfterGuarded(allElectronAPIsExist,
                        <<ElectronCall("showUploadFilesDialog", <<>>)>>)
    /\ UNCHANGED <<ElectronAPIs, allElectronAPIsExist, constructed>>
    /\ UNCHANGED notImportVars

ShowUploadDirsDialog ==
    /\ Callable
    /\ opLog' = Append(opLog, "showUploadDirsDialog")
    /\ electronCalls' =
           AfterGuarded(allElectronAPIsExist,
                        <<ElectronCall("showUploadDirsDialog", <<>>)>>)
    /\ UNCHANGED <<ElectronAPIs, allElectronAPIsExist, constructed>>
    /\ UNCHANGED notImportVars

\* What getPendingUploads of the API does, resolve or throw, changes what
\* the operation returns and nothing of the object.
GetPendingUploads ==
    /\ Callable
    /\ opLog' = Append(opLog, "getPendingUploads")
    /\ electronCalls' =
           AfterGuarded(allElectronAPIsExist,
                        <<ElectronCall("getPendingUploads", <<>>)>>)
    /\ UNCHANGED <<ElectronAPIs, allElectronAPIsExist, constructed>>
    /\ UNCHANGED notImportVars

SetToUploadFiles ==
    /\ Callable
    /\ opLog' = Append(opLog, "setToUploadFiles")
    /\ \E files \in FileLists, collections \in CollectionLists :
           electronCalls' =
               AfterGuarded(allElectronAPIsExist,
                            <<ElectronCall("setToUploadFiles", FilePaths(files)),
                              ElectronCall("setToUploadCollection",
                                           CollectionName(collections))>>)
    /\ UNCHANGED <<ElectronAPIs, allElectronAPIsExist, constructed>>
    /\ UNCHANGED notImportVars

UpdatePendingUploadsUnguarded ==
    /\ Callable
    /\ opLog' = Append(opLog, "updatePendingUploads")
    /\ \E files \in FileLists :
           electronCalls' =
               AfterGuarded(TRUE, <<ElectronCall("setToUploadFiles",
                                                 PendingPaths(files))>>)
    /\ UNCHANGED <<ElectronAPIs, allElectronAPIsExist, constructed>>
    /\ UNCHANGED notImportVars

UpdatePendingUploads ==
    /\ Callable
    /\ opLog' = Append(opLog, "updatePendingUploads")
    /\ \E files \in FileLists :
           electronCalls' =
               AfterGuarded(allElectronAPIsExist,
                            <<ElectronCall("setToUploadFiles",
                                           PendingPaths(files))>>)
    /\ UNCHANGED <<ElectronAPIs, allElectronAPIsExist, constructed>>
    /\ UNCHANGED notImportVars

\* ===================================================== doListAction: escaping

\* Strings are sequences of one-character strings.
Alnum ==
    {"a","b","c","d","e","f","g","h","i","j","k","l","m","n","o","p","q","r",
     "s","t","u","v","w","x","y","z",
     "A","B","C","D","E","F","G","H","I","J","K","L","M","N","O","P","Q","R",
     "S","T","U","V","W","X","Y","Z",
     "0","1","2","3","4","5","6","7","8","9"}

Unreserved == Alnum \cup {"-", "_", ".", "~"}

\* RFC 3986 2.2, the reserved characters net/url decides by mode.
Reserved == {"$", "&", "+", ",", "/", ":", ";", "=", "?", "@"}

\* The two upper-case hex digits of each escapable character of the model.
HexOf ==
    [c \in {" ", "\"", "$", "%", "&", "+", ",", "/", ":", ";", "=", "?", "@",
            "{", "}"} |->
        CASE c = " "  -> <<"2", "0">>
          [] c = "\"" -> <<"2", "2">>
          [] c = "$"  -> <<"2", "4">>
          [] c = "%"  -> <<"2", "5">>
          [] c = "&"  -> <<"2", "6">>
          [] c = "+"  -> <<"2", "B">>
          [] c = ","  -> <<"2", "C">>
          [] c = "/"  -> <<"2", "F">>
          [] c = ":"  -> <<"3", "A">>
          [] c = ";"  -> <<"3", "B">>
          [] c = "="  -> <<"3", "D">>
          [] c = "?"  -> <<"3", "F">>
          [] c = "@"  -> <<"4", "0">>
          [] c = "{"  -> <<"7", "B">>
          [] c = "}"  -> <<"7", "D">>]

HexDigits == {"0","1","2","3","4","5","6","7","8","9","A","B","C","D","E","F",
              "a","b","c","d","e","f"}

\* net/url shouldEscape(c, mode), for the modes encodeQueryComponent ("query")
\* and encodePathSegment ("path").
shouldEscape(c, mode) ==
    IF c \in Unreserved THEN FALSE
    ELSE IF c \in Reserved
         THEN IF mode = "path" THEN c \in {"/", ";", ",", "?"} ELSE TRUE
    ELSE TRUE

\* net/url escape(s, mode): a space becomes "+" in query mode; every other
\* character shouldEscape names becomes %XX.
RECURSIVE escape(_, _)
escape(s, mode) ==
    IF s = <<>> THEN <<>>
    ELSE LET c == Head(s)
             e == IF shouldEscape(c, mode)
                  THEN IF c = " " /\ mode = "query" THEN <<"+">>
                       ELSE <<"%">> \o HexOf[c]
                  ELSE <<c>>
         IN  e \o escape(Tail(s), mode)

QueryEscapeIdentity(s) == s

\* url.QueryEscape(email)
QueryEscape(s) == escape(s, "query")

\* url.PathEscape(contactInfo)
PathEscape(s) == escape(s, "path")

\* fmt.Sprintf("{Contact+Email: \"%s\"}", escapedEmail)
ContactInfo(escapedEmail) ==
    <<"{","C","o","n","t","a","c","t","+","E","m","a","i","l",":"," ","\"">>
    \o escapedEmail \o <<"\"", "}">>

\* The contactinfo parameter of the request URL, as doListAction builds it.
escapedContactInfo(email) == PathEscape(ContactInfo(QueryEscape(email)))

\* ---- the vendor's side: decoding of a query parameter

\* url.EscapeError, returned for a malformed escape.
EscapeError == <<"EscapeError">>

RECURSIVE validEscapes(_)
validEscapes(s) ==
    IF s = <<>> THEN TRUE
    ELSE IF Head(s) = "%"
         THEN /\ Len(s) >= 3
              /\ s[2] \in HexDigits
              /\ s[3] \in HexDigits
              /\ validEscapes(SubSeq(s, 4, Len(s)))
    ELSE validEscapes(Tail(s))

\* The character two hex digits stand for.
unhex(h1, h2) ==
    LET hit == {c \in DOMAIN HexOf : HexOf[c] = <<h1, h2>>}
    IN  IF hit = {} THEN "?" ELSE CHOOSE c \in hit : TRUE

RECURSIVE unescapeValid(_)
unescapeValid(s) ==
    IF s = <<>> THEN <<>>
    ELSE IF Head(s) = "%"
         THEN <<unhex(s[2], s[3])>> \o unescapeValid(SubSeq(s, 4, Len(s)))
    ELSE IF Head(s) = "+" THEN <<" ">> \o unescapeValid(Tail(s))
    ELSE <<Head(s)>> \o unescapeValid(Tail(s))

\* Decoding of a query-string value: %XX to its character, "+" to a space.
QueryUnescape(s) == IF validEscapes(s) THEN unescapeValid(s) ELSE EscapeError

\* The vendor decodes the contactinfo query parameter, then the escapes
\* left in the contact info it carries.
VendorDecode(param) ==
    LET once == QueryUnescape(param)
    IN  IF once = EscapeError THEN EscapeError ELSE QueryUnescape(once)

\* What the vendor has to read for `email`.
VendorContactInfo(email) ==
    <<"{","C","o","n","t","a","c","t"," ","E","m","a","i","l",":"," ","\"">>
    \o email \o <<"\"", "}">>

EmailChars == {"a", "+", "@", "%", " ", ".", "2", "B"}

RECURSIVE SeqsUpTo(_, _)
SeqsUpTo(S, n) ==
    IF n = 0 THEN {<<>>}
    ELSE LET shorter == SeqsUpTo(S, n - 1)
         IN  shorter \cup {Append(q, c) : q \in shorter, c \in S}

\* "a+b@example.com"
PlusEmail ==
    <<"a","+","b","@","e","x","a","m","p","l","e",".","c","o","m">>

EscapeInputs == SeqsUpTo(EmailChars, MaxEmailLen) \cup {PlusEmail}

NotEscaped == <<"none">>

\* The variables of the other components, which the escaping leaves alone.
notEscVars == <<planVars, ctrlVars, cardVars, effVars, impVars>>

EscapeInit ==
    /\ escEmail = <<>>
    /\ escParam = NotEscaped

\* doListAction builds the contactinfo parameter for one email.
BuildContactInfo ==
    /\ escParam = NotEscaped
    /\ \E e \in EscapeInputs :
           /\ escEmail' = e
           /\ escParam' = escapedContactInfo(e)
    /\ UNCHANGED notEscVars

\* doListAction returns and its locals are gone.
DropContactInfo ==
    /\ escParam # NotEscaped
    /\ escEmail' = <<>>
    /\ escParam' = NotEscaped
    /\ UNCHANGED notEscVars

\* ================================================== MailingListsController

Callers == 1..NumCallers

\* The caller of the sequential specification.
MainCaller == 1

\* A Go string value: the data it points to and its length, two machine words
\* that an unsynchronised store writes one after the other.
GoString(d, n) == [data |-> d, len |-> n]

EmptyToken == GoString(<<>>, 0)
TokA == GoString(<<"t", "A">>, 2)
TokB == GoString(<<"t", "o", "k", "B">>, 4)

\* What reading a string header past the end of its data yields.
InvalidMemory == <<"invalid memory">>

\* The characters a Go string value stands for: the first len characters of
\* its data; with a length beyond its data the read leaves the string.
StringValue(h) ==
    IF h.len <= Len(h.data) THEN SubSeq(h.data, 1, h.len) ELSE InvalidMemory

\* The access tokens zoho.DoRequest may hand back.
ClientTokens == {EmptyToken, TokA, TokB}

\* viper "zoho.list-key" and "zoho.topic-ids"
zohoListKey == "list-key"
zohoTopicIds == "topic-ids"

\* Errors: nil, or an error with its message as a sequence of words.
NoErr == [nil |-> TRUE]
Err(words) == [msg |-> words]

ErrNotImplemented == Err(<<"not", "implemented">>)

ErrContactAbsent == Err(<<"Contact", "does", "not", "exist">>)
ErrContactAbsentInBody ==
    Err(<<"code", "2103", "message", "Contact", "does", "not", "exist", ".",
          "status", "error">>)
ErrContactExists == Err(<<"Contact", "does", "exist">>)
ErrInvalidToken == Err(<<"invalid", "oauth", "token">>)

\* The errors zoho.DoRequest may return.
ClientErrors ==
    {ErrContactAbsent, ErrContactAbsentInBody, ErrContactExists, ErrInvalidToken}

\* "Contact does not exist"
ContactDoesNotExist == <<"Contact", "does", "not", "exist">>

\* strings.Contains(s, sub)
Contains(s, sub) ==
    \E i \in 1..(Len(s) - Len(sub) + 1) : SubSeq(s, i, i + Len(sub) - 1) = sub

\* stacktrace.Propagate(err, ""): nil stays nil, an error is wrapped and stays
\* the cause of what is returned.
Propagate(err) == IF err = NoErr THEN NoErr ELSE [cause |-> err]

\* The emails the controller is called with.
CtrlEmails == {PlusEmail, <<"c", "@", "d", ".", "e">>}

NoCall == [op |-> "none"]
NoRequest == [action |-> "none"]
NoReturn == [none |-> TRUE]
NoResult == [pending |-> TRUE]

\* The variables of the other components, which the controller leaves alone.
notCtrlVars == <<planVars, escVars, cardVars, effVars, impVars>>

CtrlInit ==
    /\ refreshToken \in {"", "refresh-token"}
    /\ zohoAccessToken \in {EmptyToken, TokA}
    /\ pc = [p \in Callers |-> "idle"]
    /\ call = [p \in Callers |-> NoCall]
    /\ sent = [p \in Callers |-> NoRequest]
    /\ ret = [p \in Callers |-> NoReturn]
    /\ stored = [p \in Callers |-> {}]
    /\ result = [p \in Callers |-> NoResult]
    /\ logged = [p \in Callers |-> "none"]
    /\ attempts = [p \in Callers |-> 0]
    /\ lastStored = NoReturn
    /\ calls = 0
    /\ vendorList = [e \in CtrlEmails |-> "never listed"]

shouldSkipNever == FALSE

\* c.shouldSkip()
shouldSkip == refreshToken = ""

\* The branch of Subscribe / Unsubscribe taken when shouldSkip() holds:
\* log.Info(...) and return stacktrace.Propagate(ente.ErrNotImplemented, "").
SkipReturn(p) ==
    /\ logged' = [logged EXCEPT ![p] = "info"]
    /\ result' = [result EXCEPT ![p] = Propagate(ErrNotImplemented)]
    /\ pc' = [pc EXCEPT ![p] = "done"]
    /\ UNCHANGED <<zohoAccessToken, sent, ret, stored, attempts, lastStored>>

\* doListAction up to the call of zoho.DoRequest: the URL is built and the
\* request is handed to the client with the cached access token.
doListActionRequest(p, action, email) ==
    /\ sent' = [sent EXCEPT ![p] =
                   [action |-> action, listkey |-> zohoListKey,
                    contactinfo |-> escapedContactInfo(email),
                    topic_id |-> zohoTopicIds, token |-> zohoAccessToken]]
    /\ attempts' = [attempts EXCEPT ![p] = @ + 1]
    /\ pc' = [pc EXCEPT ![p] = "inflight"]
    /\ UNCHANGED <<zohoAccessToken, ret, stored, result, logged, lastStored>>

\* A caller enters Subscribe or Unsubscribe.
BeginCall(p, op, email) ==
    /\ pc[p] = "idle"
    /\ calls < MaxCalls
    /\ calls' = calls + 1
    /\ call' = [call EXCEPT ![p] = [op |-> op, email |-> email]]
    /\ UNCHANGED <<refreshToken, vendorList>>
    /\ UNCHANGED notCtrlVars

SubscribeOnce(p, email) ==
    /\ BeginCall(p, "Subscribe", email)
    /\ IF shouldSkip THEN SkipReturn(p)
       ELSE IF vendorList[email] = "subscribed"
            THEN /\ result' = [result EXCEPT ![p] = NoErr]
                 /\ pc' = [pc EXCEPT ![p] = "done"]
                 /\ UNCHANGED <<zohoAccessToken, sent, ret, stored, attempts,
                                lastStored, logged>>
       ELSE doListActionRequest(p, "listsubscribe", email)

\* Subscribe(email)
Subscribe(p, email) ==
    /\ BeginCall(p, "Subscribe", email)
    /\ IF shouldSkip THEN SkipReturn(p)
       ELSE doListActionRequest(p, "listsubscribe", email)

UnsubscribeAsSubscribe(p, email) ==
    /\ BeginCall(p, "Unsubscribe", email)
    /\ IF shouldSkip THEN SkipReturn(p)
       ELSE doListActionRequest(p, "listsubscribe", email)

\* Unsubscribe(email)
Unsubscribe(p, email) ==
    /\ BeginCall(p, "Unsubscribe", email)
    /\ IF shouldSkip THEN SkipReturn(p)
       ELSE doListActionRequest(p, "listunsubscribe", email)

\* zoho.DoRequest returns: the external client hands back an access token and
\* an error or nil.
DoRequestReturns(p, tok, err) ==
    /\ pc[p] = "inflight"
    /\ ret' = [ret EXCEPT ![p] = [token |-> tok, err |-> err]]
    /\ pc' = [pc EXCEPT ![p] = "store"]
    /\ sent' = [sent EXCEPT ![p] = NoRequest]
    /\ vendorList' = IF err = NoErr
                     THEN [vendorList EXCEPT ![call[p].email] =
                              IF sent[p].action = "listsubscribe"
                              THEN "subscribed" ELSE "unsubscribed"]
                     ELSE vendorList
    /\ UNCHANGED <<refreshToken, zohoAccessToken, call, stored, result,
                   logged, attempts, lastStored, calls>>
    /\ UNCHANGED notCtrlVars

TokenToStoreOnSuccessOnly(p) ==
    IF ret[p].err = NoErr THEN ret[p].token ELSE zohoAccessToken

\* The right-hand side of c.zohoAccessToken = zohoAccessToken.
TokenToStore(p) == ret[p].token

StringWords == {"data", "len"}

\* c.zohoAccessToken = zohoAccessToken: an unsynchronised store of a string,
\* one word at a time, in either order.
doListActionStore(p, w) ==
    /\ pc[p] = "store"
    /\ w \in StringWords \ stored[p]
    /\ zohoAccessToken' = [zohoAccessToken EXCEPT ![w] = TokenToStore(p)[w]]
    /\ stored' = [stored EXCEPT ![p] = @ \cup {w}]
    /\ IF stored'[p] = StringWords
       THEN /\ pc' = [pc EXCEPT ![p] = "classify"]
            /\ lastStored' = [token |-> ret[p].token,
                               failed |-> ret[p].err # NoErr]
       ELSE UNCHANGED <<pc, lastStored>>
    /\ UNCHANGED <<refreshToken, call, sent, ret, result, logged, attempts, calls,
                   vendorList>>
    /\ UNCHANGED notCtrlVars

\* The log line of doListAction after a request: none on success, Warnf when
\* the message contains "Contact does not exist", Errorf otherwise.
LogLevel(err) ==
    IF err = NoErr THEN "none"
    ELSE IF Contains(err.msg, ContactDoesNotExist) THEN "warn"
    ELSE "error"

ReturnedErrorSwallowAbsent(err) ==
    IF err # NoErr /\ Contains(err.msg, ContactDoesNotExist) THEN NoErr
    ELSE Propagate(err)

\* return stacktrace.Propagate(err, "")
ReturnedError(err) == Propagate(err)

doListActionReturnRetry(p) ==
    /\ pc[p] = "classify"
    /\ IF ret[p].err # NoErr /\ attempts[p] < 2
       THEN /\ attempts' = [attempts EXCEPT ![p] = @ + 1]
            /\ pc' = [pc EXCEPT ![p] = "inflight"]
            /\ stored' = [stored EXCEPT ![p] = {}]
            /\ UNCHANGED <<logged, result>>
       ELSE /\ logged' = [logged EXCEPT ![p] = LogLevel(ret[p].err)]
            /\ result' = [result EXCEPT ![p] = ReturnedError(ret[p].err)]
            /\ pc' = [pc EXCEPT ![p] = "done"]
            /\ UNCHANGED <<attempts, stored>>
    /\ UNCHANGED <<refreshToken, zohoAccessToken, call, sent, ret, lastStored, calls,
                   vendorList>>
    /\ UNCHANGED notCtrlVars

\* doListAction after the store: the error, if any, is logged and returned.
doListActionReturn(p) ==
    /\ pc[p] = "classify"
    /\ logged' = [logged EXCEPT ![p] = LogLevel(ret[p].err)]
    /\ result' = [result EXCEPT ![p] = ReturnedError(ret[p].err)]
    /\ pc' = [pc EXCEPT ![p] = "done"]
    /\ UNCHANGED <<refreshToken, zohoAccessToken, call, sent, ret, stored,
                   attempts, lastStored, calls, vendorList>>
    /\ UNCHANGED notCtrlVars

\* The caller has its result and is free to call again.
CallerContinues(p) ==
    /\ pc[p] = "done"
    /\ pc' = [pc EXCEPT ![p] = "idle"]
    /\ call' = [call EXCEPT ![p] = NoCall]
    /\ ret' = [ret EXCEPT ![p] = NoReturn]
    /\ UNCHANGED sent
    /\ stored' = [stored EXCEPT ![p] = {}]
    /\ result' = [result EXCEPT ![p] = NoResult]
    /\ logged' = [logged EXCEPT ![p] = "none"]
    /\ attempts' = [attempts EXCEPT ![p] = 0]
    /\ UNCHANGED <<refreshToken, zohoAccessToken, lastStored, calls, vendorList>>
    /\ UNCHANGED notCtrlVars

CallerStep(p) ==
    \/ \E e \in CtrlEmails : Subscribe(p, e)
    \/ \E e \in CtrlEmails : Unsubscribe(p, e)
    \/ \E tok \in ClientTokens, err \in ClientErrors \cup {NoErr} :
           DoRequestReturns(p, tok, err)
    \/ \E w \in StringWords : doListActionStore(p, w)
    \/ doListActionReturn(p)
    \/ CallerContinues(p)

\* ================================================================= claims

\* The call of the sequential caller got past shouldSkip.
EnabledCall(p) == call[p] # NoCall /\ refreshToken # ""

Classified == outcome # NoOutcome

Present == Classified /\ outcome.sub # Undefined

Expired == Present /\ outcome.sub.expiryTime < outcome.nowMs * UsPerMs

\* C1: a present subscription whose expiryTime is strictly less than
\* Date.now() * 1000 is classified buyPlan, whatever its paymentProvider and
\* productID.
C1_ExpiredIsBuyPlan == Expired => outcome.result = "buyPlan"

\* An expired, paid stripe subscription was classified.
C1_Witness ==
    /\ Expired
    /\ outcome.sub.paymentProvider = "stripe"
    /\ outcome.sub.productID # "free"
    /\ outcome.result = "buyPlan"

\* C8: a present subscription with productID "free" is classified buyPlan,
\* whatever its expiryTime and paymentProvider.
C8_FreeIsBuyPlan ==
    (Present /\ outcome.sub.productID = "free") => outcome.result = "buyPlan"

\* A free subscription that has not expired and is paid through stripe was
\* classified.
C8_Witness ==
    /\ Present
    /\ outcome.sub.productID = "free"
    /\ ~Expired
    /\ outcome.sub.paymentProvider = "stripe"
    /\ outcome.result = "buyPlan"

\* C9: a present, non-free subscription whose expiryTime is not earlier than
\* Date.now() * 1000 and whose paymentProvider is stripe is classified
\* updateSubscriptionToPlan.
C9_ActiveStripeIsUpdate ==
    (/\ Present
     /\ outcome.sub.productID # "free"
     /\ outcome.sub.expiryTime >= outcome.nowMs * UsPerMs
     /\ outcome.sub.paymentProvider = "stripe")
    => outcome.result = "updateSubscriptionToPlan"

\* A paid stripe subscription expiring exactly now was classified.
C9_Witness ==
    /\ Present
    /\ outcome.sub.productID # "free"
    /\ outcome.nowMs > 0
    /\ outcome.sub.expiryTime = outcome.nowMs * UsPerMs
    /\ outcome.sub.paymentProvider = "stripe"
    /\ outcome.result = "updateSubscriptionToPlan"

\* C10: a present, non-free, non-expired subscription paid through appstore
\* or playstore is classified cancelOnMobile.
C10_ActiveMobileIsCancelOnMobile ==
    (/\ Present
     /\ outcome.sub.productID # "free"
     /\ ~Expired
     /\ outcome.sub.paymentProvider \in {"appstore", "playstore"})
    => outcome.result = "cancelOnMobile"

\* A paid, unexpired playstore subscription was classified.
C10_Witness ==
    /\ Present
    /\ outcome.sub.productID # "free"
    /\ ~Expired
    /\ outcome.sub.paymentProvider = "playstore"
    /\ outcome.result = "cancelOnMobile"

\* C5: the contactinfo parameter built for an email decodes on the vendor's
\* side to {Contact Email: "<email>"}; for "a+b@example.com" the "+" of the
\* email comes out as a plus sign, not as a space.
C5_PlusSurvivesEscaping ==
    escParam # NotEscaped =>
        /\ VendorDecode(escParam) = VendorContactInfo(escEmail)
        /\ escEmail = PlusEmail =>
               VendorDecode(escParam) =
                   <<"{","C","o","n","t","a","c","t"," ","E","m","a","i","l",
                     ":"," ","\"","a","+","b","@","e","x","a","m","p","l","e",
                     ".","c","o","m","\"","}">>

\* The parameter for "a+b@example.com" was built:
\* %7BContact+Email:%20%22a%252Bb%2540example.com%22%7D
C5_Witness ==
    /\ escEmail = PlusEmail
    /\ escParam =
           <<"%","7","B","C","o","n","t","a","c","t","+","E","m","a","i","l",
             ":","%","2","0","%","2","2","a","%","2","5","2","B","b","%","2",
             "5","4","0","e","x","a","m","p","l","e",".","c","o","m","%","2",
             "2","%","7","D">>

\* C2: with an empty refresh token Subscribe and Unsubscribe return an error
\* wrapping ErrNotImplemented, never call zoho.DoRequest and leave the cached
\* access token as it was.
C2_DisabledModeSkips ==
    /\ [](refreshToken = "" =>
            \A p \in Callers :
                /\ attempts[p] = 0
                /\ sent[p] = NoRequest
                /\ pc[p] \in {"idle", "done"}
                /\ pc[p] = "done" => result[p] = [cause |-> ErrNotImplemented])
    /\ [][refreshToken = "" => zohoAccessToken' = zohoAccessToken]_vars

\* A disabled controller with a pre-seeded token returned from Unsubscribe.
C2_Witness ==
    /\ refreshToken = ""
    /\ pc[MainCaller] = "done"
    /\ call[MainCaller].op = "Unsubscribe"
    /\ result[MainCaller] = [cause |-> ErrNotImplemented]
    /\ zohoAccessToken = TokA

\* C3: after an enabled-mode call the cached access token is the token the
\* client returned for that call, on success and on failure, and the next
\* call hands exactly that token to the client.
C3_TokenStoredAndPassedOn ==
    /\ (EnabledCall(MainCaller) /\ pc[MainCaller] \in {"classify", "done"})
           => zohoAccessToken = ret[MainCaller].token
    /\ (pc[MainCaller] = "inflight" /\ lastStored # NoReturn)
           => sent[MainCaller].token = lastStored.token

\* A failed call returned another token, and the following call is in flight
\* with it.
C3_Witness ==
    /\ pc[MainCaller] = "inflight"
    /\ calls = 2
    /\ lastStored # NoReturn
    /\ lastStored.token = TokB
    /\ lastStored.failed
    /\ sent[MainCaller].token = TokB

\* C4: a failed request's error is returned to the caller whether or not its
\* message contains "Contact does not exist"; the message decides only the
\* log level (warning with the substring, error without), and a success is
\* returned as a success.
C4_ErrorPropagated ==
    (EnabledCall(MainCaller) /\ pc[MainCaller] = "done") =>
        LET err == ret[MainCaller].err
        IN  /\ err = NoErr =>
                   /\ result[MainCaller] = NoErr
                   /\ logged[MainCaller] = "none"
            /\ err # NoErr =>
                   /\ result[MainCaller] = [cause |-> err]
                   /\ logged[MainCaller] =
                          IF err \in {ErrContactAbsent, ErrContactAbsentInBody}
                          THEN "warn" ELSE "error"

\* A call failed with a vendor body holding "Contact does not exist": logged
\* as a warning, returned as an error.
C4_Witness ==
    /\ pc[MainCaller] = "done"
    /\ EnabledCall(MainCaller)
    /\ ret[MainCaller].err = ErrContactAbsentInBody
    /\ logged[MainCaller] = "warn"
    /\ result[MainCaller] = [cause |-> ErrContactAbsentInBody]

\* C6: an enabled-mode call hands exactly one request to zoho.DoRequest,
\* on success and on failure.
C6_SingleAttempt ==
    \A p \in Callers :
        EnabledCall(p) =>
            /\ attempts[p] = 1
            /\ pc[p] \in {"inflight", "store", "classify", "done"}

\* A failed call returned after its single attempt.
C6_Witness ==
    /\ pc[MainCaller] = "done"
    /\ EnabledCall(MainCaller)
    /\ ret[MainCaller].err = ErrInvalidToken
    /\ attempts[MainCaller] = 1

AllCallsOver == \A p \in Callers : pc[p] \in {"idle", "done"}

\* C7: under every interleaving of concurrent calls each call returns the
\* result of its own request, and once the calls are over the cached access
\* token is the token of the call that wrote last.
C7_LastWriteWins ==
    /\ \A p \in Callers :
           (EnabledCall(p) /\ pc[p] = "done") =>
               result[p] = Propagate(ret[p].err)
    /\ (AllCallsOver /\ lastStored # NoReturn)
           => StringValue(zohoAccessToken) = StringValue(lastStored.token)

\* C11: a present, non-free, non-expired subscription whose paymentProvider is
\* none of stripe, appstore and playstore is classified contactSupport.
C11_ActiveOtherIsContactSupport ==
    (/\ Present
     /\ outcome.sub.productID # "free"
     /\ ~Expired
     /\ outcome.sub.paymentProvider \notin {"stripe", "appstore", "playstore"})
    => outcome.result = "contactSupport"

\* A paid, unexpired paypal subscription was classified.
C11_Witness ==
    /\ Present
    /\ outcome.sub.productID # "free"
    /\ ~Expired
    /\ outcome.sub.paymentProvider = "paypal"
    /\ outcome.result = "contactSupport"

Outcomes ==
    {"buyPlan", "updateSubscriptionToPlan", "cancelOnMobile", "contactSupport"}

\* C12: with no subscription (undefined) planSelectionOutcome returns buyPlan;
\* every call, this one included, ends with one of the four outcomes.
C12_AbsentIsBuyPlan ==
    Classified =>
        /\ outcome.result \in Outcomes
        /\ outcome.sub = Undefined => outcome.result = "buyPlan"

\* planSelectionOutcome(undefined) was called.
C12_Witness ==
    /\ Classified
    /\ outcome.sub = Undefined
    /\ outcome.result = "buyPlan"

\* C13: in enabled mode a request of Subscribe carries the action
\* listsubscribe and a request of Unsubscribe the action listunsubscribe, with
\* the configured list key, the escaped contact info of the call's email and
\* the configured topic ids; no other action is ever sent.
C13_RequestOfTheCall ==
    \A p \in Callers :
        sent[p] # NoRequest =>
            /\ pc[p] = "inflight"
            /\ call[p].op \in {"Subscribe", "Unsubscribe"}
            /\ sent[p].action =
                   IF call[p].op = "Subscribe" THEN "listsubscribe"
                   ELSE "listunsubscribe"
            /\ sent[p].listkey = zohoListKey
            /\ sent[p].topic_id = zohoTopicIds
            /\ sent[p].contactinfo = escapedContactInfo(call[p].email)
            /\ call[p].email = PlusEmail =>
                   sent[p].contactinfo =
                       <<"%","7","B","C","o","n","t","a","c","t","+","E","m",
                         "a","i","l",":","%","2","0","%","2","2","a","%","2",
                         "5","2","B","b","%","2","5","4","0","e","x","a","m",
                         "p","l","e",".","c","o","m","%","2","2","%","7","D">>

\* Unsubscribe("a+b@example.com") has its request in flight.
C13_Witness ==
    /\ pc[MainCaller] = "inflight"
    /\ call[MainCaller] = [op |-> "Unsubscribe", email |-> PlusEmail]
    /\ sent[MainCaller].action = "listunsubscribe"
    /\ sent[MainCaller].listkey = "list-key"
    /\ sent[MainCaller].topic_id = "topic-ids"

\* C14: Subscribe of an email the vendor already lists, or one it has
\* unsubscribed, sends the request a first Subscribe sends and returns the
\* client's success as success; no call changes a field of the controller
\* other than the cached access token.
C14_SubscribeIsIdempotent ==
    /\ [](\A p \in Callers :
            (EnabledCall(p) /\ call[p].op = "Subscribe") =>
                /\ attempts[p] = 1
                /\ pc[p] = "inflight" =>
                       sent[p] = [action |-> "listsubscribe",
                                  listkey |-> zohoListKey,
                                  contactinfo |-> escapedContactInfo(call[p].email),
                                  topic_id |-> zohoTopicIds,
                                  token |-> zohoAccessToken]
                /\ (pc[p] = "done" /\ ret[p].err = NoErr) => result[p] = NoErr)
    /\ [][refreshToken' = refreshToken]_vars

\* Subscribe of an email the vendor already lists as subscribed has its
\* request in flight.
C14_Witness ==
    /\ pc[MainCaller] = "inflight"
    /\ call[MainCaller].op = "Subscribe"
    /\ vendorList[call[MainCaller].email] = "subscribed"
    /\ sent[MainCaller].action = "listsubscribe"

\* C15, as stated: redirectToPaymentsApp is invoked only after the user has
\* confirmed a dialog, whatever the outcome of planSelectionOutcome. The
\* buyPlan case refutes it.
C15_RedirectOnlyAfterConfirmation ==
    redirect.reason # "none" => confirmed # "none"

\* C15, amended: a redirect begins either behind the continue button of the
\* update dialog, for the outcome updateSubscriptionToPlan, or at once in
\* handlePlanSelect, with no dialog and no confirmation, for the outcome
\* buyPlan; for cancelOnMobile and contactSupport there is no redirect.
C15_ConfirmationBeforeUpdateRedirectOnly ==
    /\ [](outcome.result \in {"cancelOnMobile", "contactSupport"}
            => redirect = NoRedirect)
    /\ [][redirect' # redirect /\ redirect'.state = "pending" =>
            \/ /\ redirect'.reason = "update"
               /\ outcome.result = "updateSubscriptionToPlan"
               /\ dialog = "update"
               /\ confirmed' = "update"
            \/ /\ redirect'.reason = "buy"
               /\ outcome'.result = "buyPlan"
               /\ selectPc = "idle"
               /\ dialog = "none"
               /\ confirmed' = "none"]_vars

C15_Witness ==
    /\ redirect.reason = "update"
    /\ redirect.state = "pending"
    /\ confirmed = "update"
    /\ outcome.result = "updateSubscriptionToPlan"

\* C18: in the buyPlan case setLoading(true) comes before the redirect; when
\* the redirect fails, setLoading(false) is called, the purchase-failed
\* dialog is shown and handlePlanSelect ends normally; when it succeeds,
\* loading stays true and nothing else is shown.
C18_BuyPlanLoadingAndFailure ==
    /\ [](redirect.reason = "buy" /\ redirect.state = "pending"
            => loading /\ loadingLog = <<TRUE>> /\ selectPc = "awaiting")
    /\ [][redirect.reason = "buy" /\ redirect.state = "pending"
          /\ redirect'.state = "failed"
            => /\ ~loading'
               /\ loadingLog' = <<TRUE, FALSE>>
               /\ dialog' = "purchaseFailed"
               /\ selectPc' = "resolved"]_vars
    /\ [][redirect.reason = "buy" /\ redirect.state = "pending"
          /\ redirect'.state = "done"
            => /\ loading'
               /\ loadingLog' = <<TRUE>>
               /\ dialog' = dialog
               /\ selectPc' = "resolved"]_vars

C18_Witness ==
    /\ redirect.reason = "buy"
    /\ redirect.state = "failed"
    /\ dialog = "purchaseFailed"
    /\ ~loading

\* The subscription of the mounted card was active when the effect looked.
ActiveAtEffect ==
    subscription # Undefined /\ isSubscriptionActive(subscription, effectNow)

\* C16: once the effect has succeeded, an active subscription that is not
\* free is for exactly one plan of the list; and the list is the fetched one,
\* or the fetched one and the synthetic plan after it, the latter only when
\* the subscription is present, active, not free and for no fetched plan.
C16_OneMatchingPlan ==
    effectPc = "done" =>
        /\ ActiveAtEffect =>
               (~isSubscriptionFree(subscription) =>
                    Cardinality(MatchingPlans(subscription, plansData.plans)) = 1)
        /\ plansData.plans # fetched =>
               /\ ActiveAtEffect
               /\ ActiveAtEffect =>
                      /\ ~isSubscriptionFree(subscription)
                      /\ MatchingPlans(subscription, fetched) = {}
                      /\ plansData.plans
                             = Append(fetched, SyntheticPlan(subscription))

C16_Witness ==
    /\ effectPc = "done"
    /\ Len(fetched) > 0
    /\ plansData.plans # fetched
    /\ Len(plansData.plans) = Len(fetched) + 1

\* C17: while the effect fetches, setLoading(true) has been called and
\* nothing after it; once it is over, on success and on failure, the last
\* call is setLoading(false); after a failure plansData is unset, onClose has
\* been called and the generic error dialog is up.
C17_LoadingBracketsTheFetch ==
    /\ effectPc = "fetching" => loading /\ loadingLog = <<TRUE>>
    /\ effectPc \in {"done", "failed"} =>
           ~loading /\ loadingLog = <<TRUE, FALSE>>
    /\ effectPc = "done" => plansData # Undefined /\ ~closed
    /\ effectPc = "failed" =>
           plansData = Undefined /\ closed /\ dialog = "genericError"

C17_Witness ==
    /\ effectPc = "failed"
    /\ closed
    /\ loadingLog = <<TRUE, FALSE>>

\* C19: the flag is what the constructor found, it never changes once the
\* object is constructed, and while it is false no operation, whatever has
\* been called, has invoked an Electron API.
C19_NoElectronCallWithoutTheFlag ==
    /\ [](constructed =>
            allElectronAPIsExist = HasGetPendingUploads(ElectronAPIs))
    /\ [](~allElectronAPIsExist => electronCalls = <<>>)
    /\ [][constructed => allElectronAPIsExist' = allElectronAPIsExist]_vars

C19_Witness ==
    /\ constructed
    /\ ~allElectronAPIsExist
    /\ ElectronAPIs.kind = "object"
    /\ \E i \in 1..Len(opLog) : opLog[i] = "updatePendingUploads"
    /\ \E i \in 1..Len(opLog) : opLog[i] = "setToUploadFiles"

\* ========================================================= specifications

Init == PlanInit /\ EffectInit /\ ImportInit /\ EscapeInit /\ CtrlInit

\* One caller: calls of the controller follow one another.
Next == CallerStep(MainCaller)

Spec == Init /\ [][Next]_vars

\* Several callers: calls of the controller interleave.
NextConcurrent == \E p \in Callers : CallerStep(p)

SpecConcurrent == Init /\ [][NextConcurrent]_vars

NextPlan ==
    \/ UserDetailsSnapshot
    \/ HandlePlanSelect
    \/ RedirectResolves
    \/ RedirectRejects
    \/ DialogContinue
    \/ DialogDismiss
    \/ CardRemount

SpecPlan == Init /\ [][NextPlan]_vars

NextEscape == BuildContactInfo \/ DropContactInfo

SpecEscape == Init /\ [][NextEscape]_vars

\* The plan-loading effect of one mounted card after another.
NextEffect ==
    \/ CardMounts
    \/ GetPlansDataResolves
    \/ GetPlansDataRejects
    \/ CardUnmounts

SpecEffect == Init /\ [][NextEffect]_vars

\* One ImportService object and the operations called on it.
NextImport ==
    \/ Construct
    \/ ShowUploadFilesDialog
    \/ ShowUploadDirsDialog
    \/ GetPendingUploads
    \/ SetToUploadFiles
    \/ UpdatePendingUploads

SpecImport == Init /\ [][NextImport]_vars

====
